---- MODULE Spec2Model ----
(***************************************************************************)
(* A model of docker-experiments-tracking (src/tracking):                  *)
(*   experiment_metrics.py  network_size, the stateful metric aggregator   *)
(*   parse_functions.py     default_parse_* and the parse dispatch tables  *)
(*   experiment_runner.py   run_single_experiment, run_parse_functions,    *)
(*                          RunWrapperSimple, RunWrapperSweep              *)
(*   experiment_tracker.py  perform_sweep, perform_single_experiment, main *)
(*                                                                         *)
(* Numbers: y samples are integers in a fixed unit (thousandths in the     *)
(* worked example); a mean is the exact rational <<num, den>> in lowest    *)
(* terms, so float64 rounding of numpy.mean is not modelled.               *)
(***************************************************************************)
EXTENDS Integers, Sequences, FiniteSets, TLC

VARIABLES
    metrics_storage,  \* [process -> dict metric name -> list of records]: network_size.metrics_storage
    runs,             \* the tracking backend: sequence of tracked runs, index = RunIdentity
    ns_calls,         \* history: the network_size calls made so far (SpecAgg)
    ns_last,          \* locals of the last network_size call (metrics_list, metrics_aggregate, ...)
    paths,            \* the directories given to main: metrics_dir, logs_dir, artifacts_dir
    fs,               \* the filesystem: the directories that exist
    sweep,            \* the sweep controller of the backend: runs_per_sweep and the runs left
    wr,               \* [process -> the run wrapper executing in it and its locals]
    files,            \* the documents at config_path and sweep_path (None: no path given)
    config,           \* the config dict of main, shared with the wrappers it creates
    main,             \* the main process: its position and the locals of main and perform_*
    tasks,            \* the tasks given to the pool by apply_async, in order
    pool              \* the pool: its state and its two task queues

aggVars == <<ns_calls, ns_last>>

mainVars == <<files, config, main, tasks, pool>>

vars == <<metrics_storage, runs, ns_calls, ns_last, paths, fs, sweep, wr, files, config, main, tasks, pool>>

(***************************************************************************)
(* Bounds of the model                                                     *)
(***************************************************************************)
MaxCalls == 3         \* network_size calls explored by SpecAgg
MaxFiles == 2         \* entries listed in one metrics directory
MaxAgentRuns == 1     \* tracked runs the sweep controller hands out in SpecAgent
MaxRuns == 2          \* the largest num-runs-limit of a run-setup section
MaxSweepRuns == 1     \* tracked runs the sweep controller hands out to the agents of main
MaxBatchFiles == 1    \* entries of a metrics directory listed by a run of a batch

(***************************************************************************)
(* Dictionaries (Python dict): functions with a finite domain            *)
(***************************************************************************)
EmptyDict == [k \in {} |-> 0]

DictDel(d, key) == [k \in DOMAIN d \ {key} |-> d[k]]

DictSet(d, key, v) == [k \in DOMAIN d \cup {key} |-> IF k = key THEN v ELSE d[k]]

DictGet(d, key, default) == IF key \in DOMAIN d THEN d[key] ELSE default

Count(seq, x) == Cardinality({ i \in 1..Len(seq) : seq[i] = x })

Last(seq) == seq[Len(seq)]

(***************************************************************************)
(* Exact rationals <<num, den>>, den > 0, in lowest terms                  *)
(***************************************************************************)
RECURSIVE GCD(_, _)
GCD(a, b) == IF b = 0 THEN a ELSE GCD(b, a % b)

Rat(n, d) == LET g == GCD(n, d) IN IF g = 0 THEN <<0, 1>> ELSE <<n \div g, d \div g>>

RatAdd(p, q) == Rat(p[1] * q[2] + q[1] * p[2], p[2] * q[2])

RatDivInt(p, k) == Rat(p[1], p[2] * k)

RECURSIVE SeqSum(_)
SeqSum(s) == IF s = <<>> THEN 0 ELSE Head(s) + SeqSum(Tail(s))

\* numpy.mean of a non-empty list of samples
NpMean(v) == Rat(SeqSum(v), Len(v))

\* numpy.mean of an empty array: 0/0, nan (with a RuntimeWarning, no exception)
NaN == <<0, 0>>

(***************************************************************************)
(* Metric files: a YAML document is a dict over string keys                *)
(***************************************************************************)
MetricNames == {"pdr", "delay"}

\* the (x-values, y-values) pairs the explored metric files carry: no sample,
\* one sample, two x values, one x value twice, and the two sample rows of the
\* worked example of the documentation (thousandths)
SampleSeqs ==
    { <<<<>>, <<>>>>,
      <<<<50>>, <<1>>>>,
      <<<<100>>, <<3>>>>,
      <<<<50, 100>>, <<3, 3>>>>,
      <<<<50, 50>>, <<1, 3>>>>,
      <<<<50, 100, 150>>, <<900, 700, 500>>>>,
      <<<<50, 100, 150>>, <<920, 680, 450>>>> }

MetricDoc(type, name, xs, ys, xaxis, yaxis) ==
    ("type" :> type) @@ ("metric-name" :> name) @@ ("x-values" :> xs) @@
    ("y-values" :> ys) @@ ("x-axis" :> xaxis) @@ ("y-axis" :> yaxis)

NetworkSizeDocs ==
    { MetricDoc("network-size", n, s[1], s[2], "nodes", n) : n \in MetricNames, s \in SampleSeqs }

(***************************************************************************)
(* experiment_metrics.network_size                                         *)
(***************************************************************************)
\* zip(m["x-values"], m["y-values"]): pairs up to the shorter sequence
Zip(xs, ys) ==
    LET n == IF Len(xs) < Len(ys) THEN Len(xs) ELSE Len(ys)
    IN  [i \in 1..n |-> <<xs[i], ys[i]>>]

\* metrics_aggregate is an insertion-ordered dict: a sequence of [x, v] entries
AggHas(agg, x) == \E i \in 1..Len(agg) : agg[i].x = x

\* an append that lets a sample of a known x replace the samples kept for it
AggAppend_Overwrite(agg, x, y) ==
    IF AggHas(agg, x)
    THEN [i \in 1..Len(agg) |-> IF agg[i].x = x THEN [x |-> x, v |-> <<y>>] ELSE agg[i]]
    ELSE Append(agg, [x |-> x, v |-> <<y>>])

\* lines 45-48: if x not in metrics_aggregate: ... = []; ...append(float(y))
AggAppend(agg, x, y) ==
    IF AggHas(agg, x)
    THEN [i \in 1..Len(agg) |-> IF agg[i].x = x THEN [x |-> x, v |-> Append(agg[i].v, y)] ELSE agg[i]]
    ELSE Append(agg, [x |-> x, v |-> <<y>>])

RECURSIVE AggPairs(_, _)
AggPairs(agg, pairs) ==
    IF pairs = <<>> THEN agg
    ELSE AggPairs(AggAppend(agg, Head(pairs)[1], Head(pairs)[2]), Tail(pairs))

\* lines 42-48: the loop over metrics_list
RECURSIVE AggRecords(_, _)
AggRecords(agg, metrics_list) ==
    IF metrics_list = <<>> THEN agg
    ELSE AggRecords(AggPairs(agg, Zip(Head(metrics_list)["x-values"], Head(metrics_list)["y-values"])),
                    Tail(metrics_list))

\* an average kept as the mean of the average so far and the next sample
RECURSIVE RunningMean(_)
RunningMean(v) ==
    IF Len(v) = 1 THEN <<v[1], 1>>
    ELSE RatDivInt(RatAdd(RunningMean(SubSeq(v, 1, Len(v) - 1)), <<Last(v), 1>>), 2)

AggMeans_Running(agg) == [i \in 1..Len(agg) |-> [x |-> agg[i].x, v |-> RunningMean(agg[i].v)]]

\* lines 50-53: every list replaced by its mean
AggMeans(agg) == [i \in 1..Len(agg) |-> [x |-> agg[i].x, v |-> NpMean(agg[i].v)]]

\* lines 56-63: one uncommitted write per entry; avg_across_size = [sum, count]
AtWrites(metric_name, means) ==
    [i \in 1..Len(means) |->
        [key |-> <<metric_name, "_at_", means[i].x>>, value |-> means[i].v, commit |-> FALSE]]

RECURSIVE RatSum(_)
RatSum(means) == IF means = <<>> THEN <<0, 1>> ELSE RatAdd(Head(means).v, RatSum(Tail(means)))

\* lines 69-75: the optional line series, titled from the record of this call
SeriesWrites(metric_name, means, metrics, method_args, group) ==
    IF "lineseries" \in DOMAIN method_args /\ method_args["lineseries"] = TRUE
    THEN << [key |-> <<metric_name, "_series">>,
             value |-> [xs |-> [i \in 1..Len(means) |-> means[i].x],
                        ys |-> [i \in 1..Len(means) |-> means[i].v],
                        keys |-> group, title |-> metrics["y-axis"], xname |-> metrics["x-axis"]],
             commit |-> TRUE] >>
    ELSE <<>>

\* lines 26-29: the record is appended to the list of its name
StoreMetrics(storage, metrics) ==
    LET metric_name == metrics["metric-name"]
    IN  DictSet(storage, metric_name, Append(DictGet(storage, metric_name, <<>>), metrics))

\* The whole call. Result: the storage afterwards, the writes made to wandb_run
\* in order, whether the call raised (ZeroDivisionError at line 66), and the
\* locals metrics_list and metrics_aggregate of a flush.
network_size(storage, group, metrics, method_args, last_file) ==
    LET metric_name == metrics["metric-name"]
        stored == StoreMetrics(storage, metrics)
        metrics_list == stored[metric_name]
        means == AggMeans(AggRecords(<<>>, metrics_list))
        at == AtWrites(metric_name, means)
    IN  IF ~last_file
        THEN [storage |-> stored, writes |-> <<>>, raised |-> FALSE, flushed |-> FALSE,
              metrics_list |-> <<>>, metrics_aggregate |-> <<>>]
        ELSE IF Len(means) = 0
        THEN [storage |-> DictDel(stored, metric_name), writes |-> at, raised |-> TRUE,
              flushed |-> TRUE, metrics_list |-> metrics_list, metrics_aggregate |-> means]
        ELSE [storage |-> DictDel(stored, metric_name),
              writes |-> at \o << [key |-> <<metric_name, "_avg">>,
                                   value |-> RatDivInt(RatSum(means), Len(means)),
                                   commit |-> TRUE] >>
                           \o SeriesWrites(metric_name, means, metrics, method_args, group),
              raised |-> FALSE, flushed |-> TRUE,
              metrics_list |-> metrics_list, metrics_aggregate |-> means]

(***************************************************************************)
(* SpecAgg: one process calling network_size on one tracked run            *)
(***************************************************************************)
NoCall == [name |-> "", last_file |-> FALSE, raised |-> FALSE, flushed |-> FALSE,
           writes |-> <<>>, metrics_list |-> <<>>, metrics_aggregate |-> <<>>]

TrackedRun(group, run_config) == [group |-> group, config |-> run_config, log |-> <<>>, finished |-> 0]

None == "None"

\* the main process and the pool of a specification that leaves them out
NoMain == [pc |-> "none"]

NoPool == [state |-> "none", taskqueue |-> <<>>, inqueue |-> <<>>]

MainUnused ==
    /\ files = [config_path |-> None, config |-> <<>>, sweep_path |-> None, sweep |-> EmptyDict]
    /\ config = <<>>
    /\ main = NoMain
    /\ tasks = <<>>
    /\ pool = NoPool

InitAgg ==
    /\ metrics_storage = [p \in {1} |-> EmptyDict]
    /\ runs = << TrackedRun("g", EmptyDict) >>
    /\ ns_calls = <<>>
    /\ ns_last = NoCall
    /\ paths = [metrics |-> "/m", logs |-> None, artifacts |-> None]
    /\ fs = {}
    /\ sweep = [id |-> None, runs_per_sweep |-> 0, left |-> 0]
    /\ wr = EmptyDict
    /\ MainUnused

\* the method arguments the process hands to every call: those of the
\* parsing-setup where the specification keeps them, else none
MethodArgs == IF "metric_args" \in DOMAIN main THEN main.metric_args ELSE EmptyDict

NetworkSizeCall(metrics, last_file) ==
    LET r == network_size(metrics_storage[1], runs[1].group, metrics, MethodArgs, last_file)
    IN  /\ Len(ns_calls) < MaxCalls
        /\ metrics_storage' = [metrics_storage EXCEPT ![1] = r.storage]
        /\ runs' = [runs EXCEPT ![1].log = @ \o r.writes]
        /\ ns_calls' = Append(ns_calls, [metrics |-> metrics, last_file |-> last_file])
        /\ ns_last' = [name |-> metrics["metric-name"], last_file |-> last_file,
                       raised |-> r.raised, flushed |-> r.flushed, writes |-> r.writes,
                       metrics_list |-> r.metrics_list, metrics_aggregate |-> r.metrics_aggregate]
        /\ UNCHANGED <<paths, fs, sweep, wr, mainVars>>

NextAgg == \E metrics \in NetworkSizeDocs, last_file \in BOOLEAN : NetworkSizeCall(metrics, last_file)

SpecAgg == InitAgg /\ [][NextAgg]_vars

(***************************************************************************)
(* SpecSeries: the calls of one process whose method arguments may ask for *)
(* the line series, on records with different axis labels                  *)
(***************************************************************************)
MethodArgsChoices == { EmptyDict, ("lineseries" :> TRUE), ("lineseries" :> FALSE) }

SeriesSamples ==
    { <<<<50>>, <<1>>>>,
      <<<<100, 50>>, <<3, 3>>>>,
      <<<<50, 150>>, <<1, 3>>>> }

AxisLabels == { <<"nodes", "value">>, <<"size", "ratio">> }

SeriesDocs ==
    { MetricDoc("network-size", n, s[1], s[2], a[1], a[2]) :
        n \in MetricNames, s \in SeriesSamples, a \in AxisLabels }

InitSeries ==
    /\ metrics_storage = [p \in {1} |-> EmptyDict]
    /\ runs = << TrackedRun("g", EmptyDict) >>
    /\ ns_calls = <<>>
    /\ ns_last = NoCall
    /\ paths = [metrics |-> "/m", logs |-> None, artifacts |-> None]
    /\ fs = {}
    /\ sweep = [id |-> None, runs_per_sweep |-> 0, left |-> 0]
    /\ wr = EmptyDict
    /\ files = [config_path |-> None, config |-> <<>>, sweep_path |-> None, sweep |-> EmptyDict]
    /\ config = <<>>
    /\ \E a \in MethodArgsChoices : main = [pc |-> "none", metric_args |-> a]
    /\ tasks = <<>>
    /\ pool = NoPool

NextSeries == \E metrics \in SeriesDocs, last_file \in BOOLEAN : NetworkSizeCall(metrics, last_file)

SpecSeries == InitSeries /\ [][NextSeries]_vars

(***************************************************************************)
(* parse_functions.py                                                      *)
(***************************************************************************)
\* experiment_metrics.py: the metric-type table
metric_type_handling == ("network-size" :> "network_size")

\* what listdir yields: a regular .yaml file holding a document, or anything else
YamlFile(doc) == [yaml |-> TRUE, doc |-> doc]

OtherEntry == [yaml |-> FALSE, doc |-> EmptyDict]

\* YAML values of `type` that yaml.load gives as a list: a list is unhashable,
\* and dict.get(list, None) raises TypeError instead of giving the default
UnhashableTypes == {"[network-size]"}

\* the entries the external program leaves in a metrics directory: a record of
\* either metric, a record of a type without handler, a record whose type is
\* a YAML sequence, a document without type, and an entry that is no .yaml file
ProgramEntries ==
    { YamlFile(MetricDoc("network-size", "pdr", <<50>>, <<1>>, "nodes", "pdr")),
      YamlFile(MetricDoc("network-size", "delay", <<100>>, <<3>>, "nodes", "delay")),
      YamlFile(MetricDoc("histogram", "pdr", <<50>>, <<1>>, "nodes", "pdr")),
      YamlFile(MetricDoc("[network-size]", "pdr", <<50>>, <<1>>, "nodes", "pdr")),
      YamlFile(("metric-name" :> "pdr")),
      OtherEntry }

Skipped(storage) ==
    [storage |-> storage, writes |-> <<>>, raised |-> FALSE, flushed |-> FALSE,
     metrics_list |-> <<>>, metrics_aggregate |-> <<>>, called |-> FALSE]

\* the body of the loop of default_parse_metrics for one listdir entry
ParseMetricsFile(storage, group, entry, method_args, last_file) ==
    IF ~entry.yaml
    THEN Skipped(storage)
    ELSE IF "type" \notin DOMAIN entry.doc
    THEN [Skipped(storage) EXCEPT !.raised = TRUE]
    ELSE IF entry.doc["type"] \in UnhashableTypes
    THEN [Skipped(storage) EXCEPT !.raised = TRUE]
    ELSE IF entry.doc["type"] \notin DOMAIN metric_type_handling
    THEN Skipped(storage)
    ELSE network_size(storage, group, entry.doc, method_args, last_file) @@ [called |-> TRUE]

\* default_parse_logfile: nothing when the path does not exist, else one table
LogfileWrites(log_filepath, exists) ==
    IF ~exists THEN <<>>
    ELSE << [key |-> <<"logfile">>, value |-> log_filepath, commit |-> TRUE] >>

\* default_parse_artifacts: one artifact upload of the directory
ArtifactWrites(artifact_dirpath) ==
    << [key |-> <<"artifacts">>, value |-> artifact_dirpath, commit |-> TRUE] >>

(***************************************************************************)
(* experiment_runner.py                                                    *)
(***************************************************************************)
\* os.path.join(dirpath, name): the name kept as the pieces it is formatted from
Join(dirpath, name) == <<dirpath, name>>

\* f"{dir_prefix}_run_{self.wandb_run.id}" and, in a sweep, f"..._{curr_run}"
\* a directory name that leaves out the id of the tracked run
RunDirName_NoId(dir_prefix, id) == <<dir_prefix, "_run_">>

RunDirName(dir_prefix, id) == <<dir_prefix, "_run_", id>>

\* a directory name that leaves out the repetition index
SweepDirName_NoIndex(dir_prefix, id, curr_run) == <<dir_prefix, "_run_", id>>

SweepDirName(dir_prefix, id, curr_run) == <<dir_prefix, "_run_", id, "_", curr_run>>

\* one "--k=v" token per item of a config, in the order of the dict
ConfigArgs(conf) == [i \in 1..Len(conf) |-> <<"--", conf[i][1], "=", conf[i][2]>>]

\* a command line with the run-scoped pairs ahead of the configuration
ExperimentCmd_ExtraFirst(conf, metrics_dirpath, log_filepath, artifacts_dirpath, out_of_config) ==
    <<"bash", "$EXPERIMENT_SCRIPT", metrics_dirpath>>
    \o (IF log_filepath # None THEN <<log_filepath>> ELSE <<>>)
    \o (IF artifacts_dirpath # None THEN <<artifacts_dirpath>> ELSE <<>>)
    \o <<"$EXP_ARGS">>
    \o ConfigArgs(out_of_config)
    \o ConfigArgs(conf)

\* lines 31-48 of run_single_experiment: the command line
ExperimentCmd(conf, metrics_dirpath, log_filepath, artifacts_dirpath, out_of_config) ==
    <<"bash", "$EXPERIMENT_SCRIPT", metrics_dirpath>>
    \o (IF log_filepath # None THEN <<log_filepath>> ELSE <<>>)
    \o (IF artifacts_dirpath # None THEN <<artifacts_dirpath>> ELSE <<>>)
    \o <<"$EXP_ARGS">>
    \o ConfigArgs(conf)
    \o ConfigArgs(out_of_config)

\* wall-clock durations an invocation may take, and its exit statuses
Durations == {1, 3}

ExitCodes == {0, 1}

\* RunWrapperBase.__init__ and the locals of _do_run_experiment
NewWrapper(kind, group_id, proj_name, run_config, runs_per_sweep, metrics_args, task) ==
    [kind |-> kind, task |-> task, group_id |-> group_id, proj_name |-> proj_name, run_config |-> run_config,
     runs_per_sweep |-> runs_per_sweep, metrics_args |-> metrics_args,
     pc |-> "idle", wandb_run |-> 0, curr_run |-> 0,
     curr_metrics_dir |-> None, curr_logfile |-> None, curr_artifacts_dir |-> None,
     durations |-> <<>>, metrics_dirs |-> <<>>, log_files |-> <<>>, artifacts_dirs |-> <<>>,
     dir_i |-> 1, listed |-> 0, trace |-> <<>>, invocations |-> <<>>, calls |-> <<>>,
     returncodes |-> <<>>,
     parsed |-> [n \in MetricNames |-> 0], flushes |-> [n \in MetricNames |-> <<>>]]

\* the locals at the start of one _do_run_experiment
StartRun(w) ==
    [w EXCEPT !.pc = "create_run", !.wandb_run = 0, !.curr_run = 0,
              !.curr_metrics_dir = None, !.curr_logfile = None, !.curr_artifacts_dir = None,
              !.durations = <<>>, !.metrics_dirs = <<>>, !.log_files = <<>>, !.artifacts_dirs = <<>>,
              !.dir_i = 1, !.listed = 0, !.trace = <<>>, !.invocations = <<>>, !.calls = <<>>,
              !.returncodes = <<>>,
              !.parsed = [n \in MetricNames |-> 0], !.flushes = [n \in MetricNames |-> <<>>]]

\* the configuration the sweep controller assigns to a run
SweepConfig == << <<"nodes", 50>> >>

\* create_run: wandb.init creates a tracked run, or fails
CreateRun(p) ==
    /\ wr[p].pc = "create_run"
    /\ \E ok \in BOOLEAN :
        IF ok
        THEN /\ runs' = Append(runs,
                    IF wr[p].kind = "simple"
                    THEN TrackedRun(wr[p].group_id, wr[p].run_config)
                    ELSE TrackedRun(None, SweepConfig))
             /\ wr' = [wr EXCEPT ![p].wandb_run = Len(runs) + 1,
                                 ![p].trace = Append(@, "create_run"),
                                 ![p].pc = IF wr[p].kind = "sweep" /\ wr[p].runs_per_sweep <= 0
                                           THEN "parse_logs" ELSE "makedirs"]
        ELSE /\ runs' = runs
             /\ wr' = [wr EXCEPT ![p].pc = "raised"]
    /\ UNCHANGED <<metrics_storage, aggVars, mainVars, paths, fs, sweep>>

\* the run-specific directories: makedirs raises FileExistsError on an existing one
MakeDirs(p) ==
    LET w == wr[p]
        name == IF w.kind = "simple" THEN RunDirName(w.group_id, w.wandb_run)
                ELSE SweepDirName(w.group_id, w.wandb_run, w.curr_run)
        curr_metrics_dir == Join(paths.metrics, name)
        curr_logfile == IF paths.logs # None THEN Join(paths.logs, name \o <<".log">>) ELSE None
        curr_artifacts_dir == IF paths.artifacts # None THEN Join(paths.artifacts, name) ELSE None
    IN  /\ w.pc = "makedirs"
        /\ IF curr_metrics_dir \in fs
           THEN /\ fs' = fs
                /\ wr' = [wr EXCEPT ![p].pc = "raised"]
           ELSE IF curr_artifacts_dir # None /\ curr_artifacts_dir \in fs \cup {curr_metrics_dir}
           THEN /\ fs' = fs \cup {curr_metrics_dir}
                /\ wr' = [wr EXCEPT ![p].pc = "raised"]
           ELSE /\ fs' = fs \cup {curr_metrics_dir} \cup (IF curr_artifacts_dir # None THEN {curr_artifacts_dir} ELSE {})
                /\ wr' = [wr EXCEPT ![p].curr_metrics_dir = curr_metrics_dir,
                                    ![p].curr_logfile = curr_logfile,
                                    ![p].curr_artifacts_dir = curr_artifacts_dir,
                                    ![p].trace = Append(@, "makedirs"),
                                    ![p].pc = "invoke"]
        /\ UNCHANGED <<metrics_storage, runs, aggVars, mainVars, paths, sweep>>

\* a run of the program that raises on a non-zero exit status (check=True)
Completed_CheckExit(returncode) == returncode = 0

\* subprocess.run(cmd) has no check argument: it returns a CompletedProcess
\* for every exit status, and the result is dropped
Completed(returncode) == TRUE

\* run_single_experiment and the lists kept for the parse functions
Invoke(p) ==
    LET w == wr[p]
        out_of_config == IF w.kind = "sweep" THEN << <<"run", w.curr_run>> >> ELSE <<>>
        cmd == ExperimentCmd(runs[w.wandb_run].config, w.curr_metrics_dir, w.curr_logfile,
                             w.curr_artifacts_dir, out_of_config)
        more == w.kind = "sweep" /\ w.curr_run + 1 < w.runs_per_sweep
    IN  /\ w.pc = "invoke"
        /\ \/ \E duration \in Durations, returncode \in ExitCodes :
                wr' = IF ~Completed(returncode)
                      THEN [wr EXCEPT ![p].returncodes = Append(@, returncode), ![p].pc = "raised"]
                      ELSE
                      [wr EXCEPT ![p].durations = Append(@, duration),
                                 ![p].returncodes = Append(@, returncode),
                                 ![p].metrics_dirs = Append(@, w.curr_metrics_dir),
                                 ![p].log_files = IF w.curr_logfile # None THEN Append(@, w.curr_logfile) ELSE @,
                                 ![p].artifacts_dirs = IF w.curr_artifacts_dir # None
                                                       THEN Append(@, w.curr_artifacts_dir) ELSE @,
                                 ![p].invocations = Append(@, cmd),
                                 ![p].trace = Append(@, "run_single_experiment"),
                                 ![p].curr_run = IF more THEN w.curr_run + 1 ELSE @,
                                 ![p].pc = IF more THEN "makedirs" ELSE "parse_metrics"]
           \/ \* subprocess.run raises: the program cannot be started
              wr' = [wr EXCEPT ![p].pc = "raised"]
        /\ UNCHANGED <<metrics_storage, runs, aggVars, mainVars, paths, fs, sweep>>

\* a call of a parse routine by run_parse_functions
ParseCall(fn, path, last_file) == [fn |-> fn, path |-> path, last_file |-> last_file]

MetricsCallsOf(w) == SelectSeq(w.calls, LAMBDA c : c.fn = "metrics")

\* a flag left at the default of the routine, last_file=True
LastFile_Default(w) == TRUE

\* the flag of the call for the directory at hand: i == len(metrics_dirlist) - 1
LastFile(w) == w.dir_i = Len(w.metrics_dirs)

\* the call of the metrics routine for the directory at hand, made before the
\* routine lists the directory
WithMetricsCall(w) ==
    IF Len(MetricsCallsOf(w)) < w.dir_i
    THEN Append(w.calls, ParseCall("metrics", w.metrics_dirs[w.dir_i], LastFile(w)))
    ELSE w.calls

\* run_parse_functions, metrics: default_parse_metrics handles one more entry of
\* the directory it is listing; the flag is i == len(metrics_dirlist) - 1
ParseMetricsEntry(p, maxFiles) ==
    LET w == wr[p]
        last_file == LastFile(w)
    IN  /\ w.pc = "parse_metrics"
        /\ w.listed < maxFiles
        /\ \E entry \in ProgramEntries :
            LET r == ParseMetricsFile(metrics_storage[p], runs[w.wandb_run].group, entry,
                                      w.metrics_args, last_file)
            IN  /\ metrics_storage' = [metrics_storage EXCEPT ![p] = r.storage]
                /\ runs' = [runs EXCEPT ![w.wandb_run].log = @ \o r.writes]
                /\ wr' = [wr EXCEPT ![p].listed = @ + 1,
                                    ![p].calls = WithMetricsCall(w),
                                    ![p].parsed = IF r.called
                                                  THEN [@ EXCEPT ![entry.doc["metric-name"]] = @ + 1]
                                                  ELSE @,
                                    ![p].flushes = IF r.called /\ r.flushed
                                                   THEN [@ EXCEPT ![entry.doc["metric-name"]] =
                                                            Append(@, Len(r.metrics_list))]
                                                   ELSE @,
                                    ![p].pc = IF r.raised THEN "raised" ELSE @]
        /\ UNCHANGED <<aggVars, mainVars, paths, fs, sweep>>

\* listdir of the current metrics directory is exhausted: the next directory of
\* the list, or the log files after the last one
ParseMetricsDirDone(p) ==
    LET w == wr[p]
    IN  /\ w.pc = "parse_metrics"
        /\ wr' = [wr EXCEPT ![p].dir_i = @ + 1, ![p].listed = 0,
                            ![p].calls = WithMetricsCall(w),
                            ![p].pc = IF w.dir_i >= Len(w.metrics_dirs) THEN "parse_logs" ELSE @]
        /\ UNCHANGED <<metrics_storage, runs, aggVars, mainVars, paths, fs, sweep>>

RECURSIVE LogfilesWrites(_, _, _)
LogfilesWrites(logs_pathlist, i, existing) ==
    IF i > Len(logs_pathlist) THEN <<>>
    ELSE LogfileWrites(logs_pathlist[i], i \in existing) \o LogfilesWrites(logs_pathlist, i + 1, existing)

\* run_parse_functions, log files: one call per path; the program wrote some of them
ParseLogs(p) ==
    LET w == wr[p]
    IN  /\ w.pc = "parse_logs"
        /\ \E existing \in SUBSET (1..Len(w.log_files)) :
            runs' = [runs EXCEPT ![w.wandb_run].log = @ \o LogfilesWrites(w.log_files, 1, existing)]
        /\ wr' = [wr EXCEPT ![p].calls = @ \o [k \in 1..Len(w.log_files) |->
                                                    ParseCall("logfile", w.log_files[k], FALSE)],
                            ![p].pc = "parse_artifacts"]
        /\ UNCHANGED <<metrics_storage, aggVars, mainVars, paths, fs, sweep>>

RECURSIVE ArtifactsWrites(_)
ArtifactsWrites(artifacts_dirlist) ==
    IF artifacts_dirlist = <<>> THEN <<>>
    ELSE ArtifactWrites(Head(artifacts_dirlist)) \o ArtifactsWrites(Tail(artifacts_dirlist))

\* run_parse_functions, artifacts: one call per directory
ParseArtifacts(p) ==
    LET w == wr[p]
    IN  /\ w.pc = "parse_artifacts"
        /\ runs' = [runs EXCEPT ![w.wandb_run].log = @ \o ArtifactsWrites(w.artifacts_dirs)]
        /\ wr' = [wr EXCEPT ![p].calls = @ \o [k \in 1..Len(w.artifacts_dirs) |->
                                                    ParseCall("artifacts", w.artifacts_dirs[k], FALSE)],
                            ![p].trace = Append(@, "run_parse_functions"), ![p].pc = "log_duration"]
        /\ UNCHANGED <<metrics_storage, aggVars, mainVars, paths, fs, sweep>>

\* the duration logged: that of the run, or numpy.mean of the durations (nan of none)
DurationValue(w) ==
    IF w.kind = "simple" THEN <<w.durations[1], 1>>
    ELSE IF w.durations = <<>> THEN NaN ELSE NpMean(w.durations)

\* a wrapper that logs the duration ahead of the artifacts routine
LogDuration_Early(p) ==
    LET w == wr[p]
        logged == Count(w.trace, "log_duration") > 0
    IN  /\ \/ w.pc = "parse_artifacts" /\ ~logged
           \/ w.pc = "log_duration"
        /\ runs' = [runs EXCEPT ![w.wandb_run].log =
                        IF logged THEN @
                        ELSE Append(@, [key |-> <<"duration_secs">>, value |-> DurationValue(w),
                                        commit |-> TRUE])]
        /\ wr' = [wr EXCEPT ![p].trace = IF logged THEN @ ELSE Append(@, "log_duration"),
                            ![p].pc = IF w.pc = "log_duration" THEN "finish" ELSE @]
        /\ UNCHANGED <<metrics_storage, aggVars, mainVars, paths, fs, sweep>>

LogDuration(p) ==
    LET w == wr[p]
    IN  /\ w.pc = "log_duration"
        /\ runs' = [runs EXCEPT ![w.wandb_run].log =
                        Append(@, [key |-> <<"duration_secs">>, value |-> DurationValue(w), commit |-> TRUE])]
        /\ wr' = [wr EXCEPT ![p].trace = Append(@, "log_duration"), ![p].pc = "finish"]
        /\ UNCHANGED <<metrics_storage, aggVars, mainVars, paths, fs, sweep>>

\* a wrapper that finishes its tracked run a second time
Finish_Twice(p) ==
    LET w == wr[p]
    IN  /\ w.pc = "finish"
        /\ runs' = [runs EXCEPT ![w.wandb_run].finished = @ + 1, ![w.wandb_run].log = <<>>]
        /\ wr' = [wr EXCEPT ![p].trace = Append(@, "finish"),
                            ![p].pc = IF Last(w.trace) = "finish" THEN "done" ELSE "finish"]
        /\ UNCHANGED <<metrics_storage, aggVars, mainVars, paths, fs, sweep>>

\* a wrapper that finishes its tracked run also after an exception
Finish_AlsoRaised(p) ==
    LET w == wr[p]
    IN  /\ w.pc \in {"finish", "raised"}
        /\ w.wandb_run # 0
        /\ runs' = [runs EXCEPT ![w.wandb_run].finished = @ + 1, ![w.wandb_run].log = <<>>]
        /\ wr' = [wr EXCEPT ![p].trace = Append(@, "finish"), ![p].pc = "done"]
        /\ UNCHANGED <<metrics_storage, aggVars, mainVars, paths, fs, sweep>>

\* wandb_run.finish() ("Finish W&B Run and upload to cloud"): the history of the
\* run leaves the process, the backend keeps that the run is finished. The
\* function returns to the agent, or the pool task ends.
Finish(p) ==
    LET w == wr[p]
    IN  /\ w.pc = "finish"
        /\ runs' = [runs EXCEPT ![w.wandb_run].finished = @ + 1, ![w.wandb_run].log = <<>>]
        /\ wr' = [wr EXCEPT ![p].trace = Append(@, "finish"), ![p].pc = "done"]
        /\ UNCHANGED <<metrics_storage, aggVars, mainVars, paths, fs, sweep>>

\* wandb.agent(sweep_id, function): the agent asks the controller for a run and
\* calls _do_run_experiment, and again after the function returned. What the
\* agent does with an exception of the function is the library's: the model
\* lets the agent stop there.
AgentPull(p) ==
    /\ wr[p].kind = "sweep"
    /\ wr[p].pc \in {"idle", "done"}
    /\ sweep.left > 0
    /\ sweep' = [sweep EXCEPT !.left = @ - 1]
    /\ wr' = [wr EXCEPT ![p] = StartRun(@)]
    /\ UNCHANGED <<metrics_storage, runs, aggVars, mainVars, paths, fs>>

WrapperStep(p, maxFiles) ==
    \/ CreateRun(p)
    \/ MakeDirs(p)
    \/ Invoke(p)
    \/ ParseMetricsEntry(p, maxFiles)
    \/ ParseMetricsDirDone(p)
    \/ ParseLogs(p)
    \/ ParseArtifacts(p)
    \/ LogDuration(p)
    \/ Finish(p)

(***************************************************************************)
(* SpecAgent: one sweep agent process executing tracked runs in sequence   *)
(***************************************************************************)
PathLayouts ==
    { [metrics |-> "/m", logs |-> None, artifacts |-> None],
      [metrics |-> "/m", logs |-> None, artifacts |-> "/a"],
      [metrics |-> "/m", logs |-> "/l", artifacts |-> "/a"],
      [metrics |-> "/m", logs |-> "/l", artifacts |-> "/m"] }

\* the values of runs-per-sweep explored (sweep-setup of the sweep document)
RunsPerSweepChoices == {0, 1, 2, 3}

InitAgent ==
    /\ metrics_storage = [p \in {1} |-> EmptyDict]
    /\ runs = <<>>
    /\ ns_calls = <<>>
    /\ ns_last = NoCall
    /\ paths \in PathLayouts
    /\ fs = {}
    /\ \E n \in RunsPerSweepChoices :
        /\ sweep = [id |-> "sweep", runs_per_sweep |-> n, left |-> MaxAgentRuns]
        /\ wr = [p \in {1} |-> NewWrapper("sweep", "sweep", None, <<>>, n, EmptyDict, 0)]
    /\ MainUnused

NextAgent == AgentPull(1) \/ WrapperStep(1, MaxFiles)

SpecAgent == InitAgent /\ [][NextAgent]_vars

(***************************************************************************)
(* experiment_tracker.py: main                                             *)
(***************************************************************************)
\* insertion-ordered dicts (the config handed to the tracked runs and turned
\* into the command line): sequences of <<key, value>>
OKeys(d) == { d[i][1] : i \in 1..Len(d) }

OGet(d, key) == d[CHOOSE i \in 1..Len(d) : d[i][1] = key][2]

ODel(d, key) == SelectSeq(d, LAMBDA kv : kv[1] # key)

OSet(d, key, v) ==
    IF key \in OKeys(d)
    THEN [i \in 1..Len(d) |-> IF d[i][1] = key THEN <<key, v>> ELSE d[i]]
    ELSE Append(d, <<key, v>>)

\* parse_functions.py: the three dispatch tables
metric_dict == ("default" :> "default_parse_metrics")

logfile_dict == ("default" :> "default_parse_logfile")

artifact_dict == ("default" :> "default_parse_artifacts")

\* a resolution that falls back to the default routine for a name the table lacks
ResolveMethod_Fallback(table, parsing_conf, category) ==
    IF category \in DOMAIN parsing_conf
    THEN DictGet(table, DictGet(parsing_conf[category], "method", "default"), table["default"])
    ELSE None

\* <table>.get(parsing_conf[category].get("method", "default"), None) under
\* `if category in parsing_conf`; the function stays None otherwise
ResolveMethod(table, parsing_conf, category) ==
    IF category \in DOMAIN parsing_conf
    THEN DictGet(table, DictGet(parsing_conf[category], "method", "default"), None)
    ELSE None

ResolveArgs(parsing_conf, category) ==
    IF category \in DOMAIN parsing_conf
    THEN DictGet(parsing_conf[category], "args", EmptyDict)
    ELSE EmptyDict

\* the main process before main() starts
MainAtStart ==
    [pc |-> "start", error |-> None,
     metric_fn |-> None, metric_args |-> EmptyDict,
     logfile_fn |-> None, logfile_args |-> EmptyDict,
     artifact_fn |-> None, artifact_args |-> EmptyDict,
     run_config |-> EmptyDict, sweep_config |-> EmptyDict,
     group_id |-> None, runs |-> 0, starting_run |-> 0, parallel |-> 0, curr_run |-> 0,
     generated |-> 0, k |-> 1,
     sweep_agents |-> 0, runs_per_sweep |-> 0, spawned |-> 0]

\* main, lines 172-213: the config is loaded, the three functions are resolved,
\* the parsing-setup section leaves the config, and a function that is None
\* raises. (The {"args": {}} entries written at lines 192, 198 and 204 go
\* into the section deleted at line 206.)
MainStart ==
    LET loaded == IF files.config_path # None THEN files.config ELSE <<>>
        has == "parsing-setup" \in OKeys(loaded)
        parsing_conf == IF has THEN OGet(loaded, "parsing-setup") ELSE EmptyDict
        metric_fn == ResolveMethod(metric_dict, parsing_conf, "metrics")
        logfile_fn == ResolveMethod(logfile_dict, parsing_conf, "logfile")
        artifact_fn == ResolveMethod(artifact_dict, parsing_conf, "artifacts")
        error == IF metric_fn = None THEN "Metric parsing function not found"
                 ELSE IF logfile_fn = None THEN "Logfile parsing function not found"
                 ELSE IF artifact_fn = None THEN "Artifacts parsing function not found"
                 ELSE None
    IN  /\ main.pc = "start"
        /\ config' = IF has THEN ODel(loaded, "parsing-setup") ELSE loaded
        /\ main' = [main EXCEPT !.metric_fn = metric_fn,
                                !.metric_args = ResolveArgs(parsing_conf, "metrics"),
                                !.logfile_fn = logfile_fn,
                                !.logfile_args = ResolveArgs(parsing_conf, "logfile"),
                                !.artifact_fn = artifact_fn,
                                !.artifact_args = ResolveArgs(parsing_conf, "artifacts"),
                                !.error = error,
                                !.pc = IF error # None THEN "raised" ELSE "dispatch"]
        /\ UNCHANGED <<metrics_storage, runs, aggVars, paths, fs, sweep, wr, files, tasks, pool>>

\* main, lines 215-253: the sweep case when a sweep path is given, else the
\* run-setup section leaves the config and becomes run_config
MainDispatch ==
    /\ main.pc = "dispatch"
    /\ IF files.sweep_path # None
       THEN /\ main' = [main EXCEPT !.sweep_config = files.sweep, !.pc = "perform_sweep"]
            /\ config' = config
       ELSE IF "run-setup" \in OKeys(config)
       THEN /\ main' = [main EXCEPT !.run_config = OGet(config, "run-setup"),
                                    !.pc = "perform_single_experiment"]
            /\ config' = ODel(config, "run-setup")
       ELSE /\ main' = [main EXCEPT !.run_config = EmptyDict, !.pc = "perform_single_experiment"]
            /\ config' = config
    /\ UNCHANGED <<metrics_storage, runs, aggVars, paths, fs, sweep, wr, files, tasks, pool>>

(***************************************************************************)
(* experiment_tracker.py: perform_single_experiment and its worker pool    *)
(***************************************************************************)
\* scalars of the run-setup section as YAML loads them: an integer, or a
\* string that int() does not accept
YamlInt(n) == [kind |-> "int", v |-> n, str |-> ""]

YamlStr(str) == [kind |-> "str", v |-> 0, str |-> str]

\* try: int(x) / except ValueError: the default
ToInt(x, default) == IF x.kind = "int" THEN x.v ELSE default

\* wandb.util.generate_id(): the n-th identifier of the process
generate_id(n) == "gid" \o ToString(n)

proj_name == "proj"

\* a pool worker waiting for a task
IdleWorker == NewWrapper("simple", None, None, <<>>, 0, EmptyDict, 0)

\* what stays of a wrapper when its task is over: its tracked run, its steps
\* and its paths
Outcome(w) ==
    [pc |-> w.pc, wandb_run |-> w.wandb_run, trace |-> w.trace, metrics_dirs |-> w.metrics_dirs,
     log_files |-> w.log_files, artifacts_dirs |-> w.artifacts_dirs]

\* the task of one apply_async(wrapper.setup_run): the wrapper is pickled by
\* the task handler thread of the pool, with the config dict as it is then
NewTask(group_id, curr_run) ==
    [group_id |-> group_id, run |-> curr_run, pickled |-> FALSE, run_config |-> <<>>,
     status |-> "queued", started |-> 0, wrapper |-> Outcome(IdleWorker)]

\* lines 98-127: the run settings and their defaults, and the pool with its
\* worker processes
PerformSingleBegin ==
    LET run_config == main.run_config
        runs_ == IF "num-runs-limit" \in DOMAIN run_config
                 THEN ToInt(run_config["num-runs-limit"], 1) ELSE 1
        starting_run == IF "num-runs-start" \in DOMAIN run_config
                        THEN ToInt(run_config["num-runs-start"], 0) ELSE 0
        parallel == IF "parallel" \in DOMAIN run_config THEN run_config["parallel"].v ELSE 1
    IN  /\ main.pc = "perform_single_experiment"
        /\ main' = [main EXCEPT !.group_id = DictGet(run_config, "group-by", None),
                                !.runs = runs_,
                                !.starting_run = starting_run,
                                !.parallel = parallel,
                                !.run_config = DictDel(run_config, "parallel"),
                                !.curr_run = starting_run,
                                !.pc = "loop"]
        /\ pool' = [state |-> "RUN", taskqueue |-> <<>>, inqueue |-> <<>>]
        /\ wr' = [p \in 1..parallel |-> IdleWorker]
        /\ metrics_storage' = [p \in 1..parallel |-> EmptyDict]
        /\ UNCHANGED <<runs, aggVars, paths, fs, sweep, files, config, tasks>>

\* an iteration that generates a group whenever group-by asks for one, without
\* keeping it for the next iteration
Submit_FreshGroup ==
    LET generate == main.group_id = None \/ main.group_id = "auto"
        group_id == IF generate THEN generate_id(main.generated + 1) ELSE main.group_id
    IN  /\ main.pc = "loop"
        /\ main.curr_run < main.runs
        /\ config' = OSet(config, "run", main.curr_run)
        /\ tasks' = Append(tasks, NewTask(group_id, main.curr_run))
        /\ pool' = [pool EXCEPT !.taskqueue = Append(@, Len(tasks) + 1)]
        /\ main' = [main EXCEPT !.generated = IF generate THEN @ + 1 ELSE @,
                                !.curr_run = @ + 1,
                                !.pc = IF main.parallel > 1 THEN "sleep" ELSE "loop"]
        /\ UNCHANGED <<metrics_storage, runs, aggVars, paths, fs, sweep, wr, files>>

\* lines 130-157, one iteration: the group of the batch, the run index written
\* into the one config dict, a wrapper holding that dict, and its task
Submit ==
    LET generate == main.group_id = None \/ main.group_id = "auto"
        group_id == IF generate THEN generate_id(main.generated + 1) ELSE main.group_id
    IN  /\ main.pc = "loop"
        /\ main.curr_run < main.runs
        /\ config' = OSet(config, "run", main.curr_run)
        /\ tasks' = Append(tasks, NewTask(group_id, main.curr_run))
        /\ pool' = [pool EXCEPT !.taskqueue = Append(@, Len(tasks) + 1)]
        /\ main' = [main EXCEPT !.group_id = group_id,
                                !.generated = IF generate THEN @ + 1 ELSE @,
                                !.curr_run = @ + 1,
                                !.pc = IF main.parallel > 1 THEN "sleep" ELSE "loop"]
        /\ UNCHANGED <<metrics_storage, runs, aggVars, paths, fs, sweep, wr, files>>

\* sleep(0.5) after a submission or after the start of an agent: a delay only
Sleep ==
    /\ main.pc \in {"sleep", "sleep_agents"}
    /\ main' = [main EXCEPT !.pc = IF main.pc = "sleep" THEN "loop" ELSE "spawn"]
    /\ UNCHANGED <<metrics_storage, runs, aggVars, paths, fs, sweep, wr, files, config, tasks, pool>>

\* range(starting_run, runs) is exhausted
LoopDone ==
    /\ main.pc = "loop"
    /\ main.curr_run >= main.runs
    /\ main' = [main EXCEPT !.pc = "wait", !.k = 1]
    /\ UNCHANGED <<metrics_storage, runs, aggVars, paths, fs, sweep, wr, files, config, tasks, pool>>

\* the task handler thread of the pool: the oldest task is pickled and sent
HandlerPickle ==
    /\ pool.state = "RUN"
    /\ pool.taskqueue # <<>>
    /\ LET i == Head(pool.taskqueue)
       IN  /\ tasks' = [tasks EXCEPT ![i].pickled = TRUE, ![i].run_config = config]
           /\ pool' = [pool EXCEPT !.taskqueue = Tail(@), !.inqueue = Append(@, i)]
    /\ UNCHANGED <<metrics_storage, runs, aggVars, paths, fs, sweep, wr, files, config, main>>

\* a worker that takes a task whatever it is doing
WorkerFree_Always(w) == TRUE

\* a pool worker takes the next task when it is through with the one before
WorkerFree(w) == w.pc = "idle"

\* a worker unpickles the oldest task sent and calls wrapper.setup_run
WorkerTake(p) ==
    /\ pool.state = "RUN"
    /\ wr[p].kind = "simple"
    /\ WorkerFree(wr[p])
    /\ pool.inqueue # <<>>
    /\ LET i == Head(pool.inqueue)
       IN  /\ wr' = [wr EXCEPT ![p] = StartRun(NewWrapper("simple", tasks[i].group_id, proj_name,
                                                         tasks[i].run_config, 0, main.metric_args, i))]
           /\ tasks' = [tasks EXCEPT ![i].status = "running", ![i].started = @ + 1]
           /\ pool' = [pool EXCEPT !.inqueue = Tail(@)]
    /\ UNCHANGED <<metrics_storage, runs, aggVars, paths, fs, sweep, files, config, main>>

\* setup_run returned or raised: the worker sends the outcome and waits again
WorkerReport(p) ==
    /\ pool.state = "RUN"
    /\ wr[p].kind = "simple"
    /\ wr[p].pc \in {"done", "raised"}
    /\ tasks' = [tasks EXCEPT ![wr[p].task].status = wr[p].pc, ![wr[p].task].wrapper = Outcome(wr[p])]
    /\ wr' = [wr EXCEPT ![p] = IdleWorker]
    /\ UNCHANGED <<metrics_storage, runs, aggVars, paths, fs, sweep, files, config, main, pool>>

\* Pool.terminate(), called when the with block is left: the workers are
\* killed, whatever they are doing, and the tasks not yet taken are dropped
TerminatedWorker(w) ==
    IF w.pc \in {"idle", "done", "raised"} THEN w ELSE [w EXCEPT !.pc = "killed"]

TerminatedTask(t, i) ==
    IF \E p \in DOMAIN wr : wr[p].task = i
    THEN LET w == wr[CHOOSE p \in DOMAIN wr : wr[p].task = i]
         IN  [t EXCEPT !.status = IF w.pc \in {"done", "raised"} THEN w.pc ELSE "killed",
                       !.wrapper = Outcome(TerminatedWorker(w))]
    ELSE t

\* line 160, one result.get() of the list: it returns when the task is done and
\* raises the exception of a task that raised, which leaves the with block;
\* after the last one the with block ends
MainGet ==
    /\ main.pc = "wait"
    /\ IF main.k > Len(tasks)
       THEN /\ main' = [main EXCEPT !.pc = "returned"]
            /\ pool' = [pool EXCEPT !.state = "TERMINATE"]
            /\ wr' = [p \in DOMAIN wr |-> TerminatedWorker(wr[p])]
            /\ tasks' = [i \in 1..Len(tasks) |-> TerminatedTask(tasks[i], i)]
       ELSE /\ tasks[main.k].status \in {"done", "raised"}
            /\ IF tasks[main.k].status = "done"
               THEN /\ main' = [main EXCEPT !.k = @ + 1]
                    /\ UNCHANGED <<pool, wr, tasks>>
               ELSE /\ main' = [main EXCEPT !.pc = "raised", !.error = "task"]
                    /\ pool' = [pool EXCEPT !.state = "TERMINATE"]
                    /\ wr' = [p \in DOMAIN wr |-> TerminatedWorker(wr[p])]
                    /\ tasks' = [i \in 1..Len(tasks) |-> TerminatedTask(tasks[i], i)]
    /\ UNCHANGED <<metrics_storage, runs, aggVars, paths, fs, sweep, files, config>>

(***************************************************************************)
(* experiment_tracker.py: perform_sweep and its agent processes            *)
(***************************************************************************)
\* lines 38-48: the sweep-setup section leaves the sweep document, and the
\* sweep is registered
PerformSweepBegin ==
    LET has == "sweep-setup" \in DOMAIN main.sweep_config
        meta_sweep_config == IF has THEN main.sweep_config["sweep-setup"] ELSE EmptyDict
        runs_per_sweep == DictGet(meta_sweep_config, "runs-per-sweep", 1)
    IN  /\ main.pc = "perform_sweep"
        /\ main' = [main EXCEPT !.sweep_config = DictDel(@, "sweep-setup"),
                                !.sweep_agents = DictGet(meta_sweep_config, "agents", 1),
                                !.runs_per_sweep = runs_per_sweep,
                                !.spawned = 0,
                                !.pc = "spawn"]
        /\ sweep' = [id |-> "sweep", runs_per_sweep |-> runs_per_sweep, left |-> MaxSweepRuns]
        /\ UNCHANGED <<metrics_storage, runs, aggVars, paths, fs, wr, files, config, tasks, pool>>

\* lines 52-72, one iteration: a sweep wrapper and the process running its setup_run
SpawnAgent ==
    LET p == main.spawned + 1
    IN  /\ main.pc = "spawn"
        /\ main.spawned < main.sweep_agents
        /\ wr' = DictSet(wr, p, NewWrapper("sweep", sweep.id, None, <<>>, main.runs_per_sweep,
                                          main.metric_args, 0))
        /\ metrics_storage' = DictSet(metrics_storage, p, EmptyDict)
        /\ main' = [main EXCEPT !.spawned = p,
                                !.pc = IF main.sweep_agents > 1 THEN "sleep_agents" ELSE "spawn"]
        /\ UNCHANGED <<runs, aggVars, paths, fs, sweep, files, config, tasks, pool>>

\* range(sweep_agents) is exhausted
SpawnDone ==
    /\ main.pc = "spawn"
    /\ main.spawned >= main.sweep_agents
    /\ main' = [main EXCEPT !.pc = "join", !.k = 1]
    /\ UNCHANGED <<metrics_storage, runs, aggVars, paths, fs, sweep, wr, files, config, tasks, pool>>

\* wandb.agent returns when the controller has no more runs: the process ends
AgentExit(p) ==
    /\ wr[p].kind = "sweep"
    /\ wr[p].pc \in {"idle", "done"}
    /\ sweep.left = 0
    /\ wr' = [wr EXCEPT ![p].pc = "exited"]
    /\ UNCHANGED <<metrics_storage, runs, aggVars, mainVars, paths, fs, sweep>>

\* a main that returns without waiting for its agent processes
MainJoin_NoWait ==
    /\ main.pc = "join"
    /\ main' = [main EXCEPT !.pc = "returned"]
    /\ UNCHANGED <<metrics_storage, runs, aggVars, paths, fs, sweep, wr, files, config, tasks, pool>>

\* lines 75-76, one worker.join(): the process has ended, of itself or of an exception
MainJoin ==
    /\ main.pc = "join"
    /\ IF main.k > main.spawned
       THEN main' = [main EXCEPT !.pc = "returned"]
       ELSE /\ wr[main.k].pc \in {"exited", "raised"}
            /\ main' = [main EXCEPT !.k = @ + 1]
    /\ UNCHANGED <<metrics_storage, runs, aggVars, paths, fs, sweep, wr, files, config, tasks, pool>>

(***************************************************************************)
(* Spec: main with a valid parsing-setup, over run-setup and sweep-setup   *)
(* variants; SpecMain: main over parsing-setup variants, one run at most   *)
(***************************************************************************)
MainStep ==
    \/ MainStart
    \/ MainDispatch
    \/ PerformSingleBegin
    \/ Submit
    \/ Sleep
    \/ LoopDone
    \/ HandlerPickle
    \/ MainGet
    \/ PerformSweepBegin
    \/ SpawnAgent
    \/ SpawnDone
    \/ MainJoin

ProcessStep(p) ==
    \/ WorkerTake(p)
    \/ WorkerReport(p)
    \/ AgentPull(p)
    \/ AgentExit(p)
    \/ WrapperStep(p, MaxBatchFiles)

Next == MainStep \/ \E p \in DOMAIN wr : ProcessStep(p)

\* a parsing-setup entry of a category: without method key, naming "default"
\* (with arguments), naming a method that no table has
MethodEntries ==
    { EmptyDict,
      ("method" :> "default") @@ ("args" :> ("unit" :> "ms")),
      ("method" :> "custom") }

\* the parsing-setup sections: any of the categories, each with any entry
ParsingSetups ==
    UNION { [cats -> MethodEntries] : cats \in SUBSET {"metrics", "logfile", "artifacts"} }

ValidParsingSetup == [c \in {"metrics", "logfile", "artifacts"} |-> EmptyDict]

\* the run-setup sections: group-by absent, "auto" or a literal; the limit
\* absent, a number or no number; the start absent or 1; parallel absent or 2
RunSetups ==
    { g @@ l @@ s @@ q :
        g \in {EmptyDict, ("group-by" :> "auto"), ("group-by" :> "exp")},
        l \in {EmptyDict, ("num-runs-limit" :> YamlStr("many"))}
              \cup { ("num-runs-limit" :> YamlInt(n)) : n \in {0, MaxRuns} },
        s \in {EmptyDict, ("num-runs-start" :> YamlInt(1))},
        q \in {EmptyDict, ("parallel" :> YamlInt(2))} }

\* the sweep documents: sweep-setup absent, or naming agents and runs-per-sweep
SweepDocs ==
    { ("method" :> "grid") }
    \cup { ("method" :> "grid") @@ ("sweep-setup" :> (("agents" :> a) @@ ("runs-per-sweep" :> n))) :
            a \in {1, 2}, n \in {0, 2} }

MainInit(configs, sweeps) ==
    /\ metrics_storage = EmptyDict
    /\ runs = <<>>
    /\ ns_calls = <<>>
    /\ ns_last = NoCall
    /\ paths = [metrics |-> "/m", logs |-> "/l", artifacts |-> "/a"]
    /\ fs = {}
    /\ sweep = [id |-> None, runs_per_sweep |-> 0, left |-> 0]
    /\ wr = EmptyDict
    /\ files \in configs \cup sweeps
    /\ config = <<>>
    /\ main = MainAtStart
    /\ tasks = <<>>
    /\ pool = NoPool

ConfigFile(doc) == [config_path |-> "config.yaml", config |-> doc, sweep_path |-> None, sweep |-> EmptyDict]

SweepFile(doc, sweep_doc) ==
    [config_path |-> "config.yaml", config |-> doc, sweep_path |-> "sweep.yaml", sweep |-> sweep_doc]

Init ==
    MainInit({ ConfigFile(<< <<"parsing-setup", ValidParsingSetup>>, <<"run-setup", r>>, <<"nodes", 50>> >>) :
                 r \in RunSetups }
             \cup { ConfigFile(<< <<"parsing-setup", ValidParsingSetup>>, <<"nodes", 50>> >>) },
             { SweepFile(<< <<"parsing-setup", ValidParsingSetup>> >>, d) : d \in SweepDocs })

Spec == Init /\ [][Next]_vars

InitMain ==
    MainInit({ ConfigFile(<< <<"parsing-setup", ps>>, <<"run-setup", ("parallel" :> YamlInt(2))>>, <<"nodes", 50>> >>) :
                 ps \in ParsingSetups }
             \cup { ConfigFile(<< <<"nodes", 50>> >>),
                    [config_path |-> None, config |-> <<>>, sweep_path |-> None, sweep |-> EmptyDict] },
             { SweepFile(<< <<"parsing-setup", ps>> >>, ("method" :> "grid")) : ps \in ParsingSetups }
             \cup { SweepFile(<<>>, ("method" :> "grid")) })

SpecMain == InitMain /\ [][Next]_vars

(***************************************************************************)
(* Properties of the aggregator, over SpecAgg                              *)
(***************************************************************************)
Max(S) == CHOOSE m \in S : \A k \in S : k <= m

\* the calls made for metric name n, and the terminal ones among them
CallsOf(n) == { i \in 1..Len(ns_calls) : ns_calls[i].metrics["metric-name"] = n }

TerminalsOf(n) == { i \in CallsOf(n) : ns_calls[i].last_file }

AvgKeyCount(log, n) == Cardinality({ i \in 1..Len(log) : log[i].key = <<n, "_avg">> })

\* C2: for calls sharing one metric name with the terminal flag only on the last
\* of them, exactly one <name>_avg aggregate is emitted: none while no terminal
\* call was made, one once the last call is the only terminal one, and then the
\* buffer holds no entry for the name.
C2_OneAggregatePerTerminal ==
    \A n \in MetricNames :
        /\ TerminalsOf(n) = {} => AvgKeyCount(runs[1].log, n) = 0
        /\ (CallsOf(n) # {} /\ TerminalsOf(n) = {Max(CallsOf(n))}) =>
               /\ AvgKeyCount(runs[1].log, n) = 1
               /\ n \notin DOMAIN metrics_storage[1]

\* the sample positions <<call, index>> buffered for the flush made by the last call
BufferedAtFlush ==
    LET k == Len(ns_calls)
        n == ns_calls[k].metrics["metric-name"]
        earlier == TerminalsOf(n) \ {k}
        from == IF earlier = {} THEN 0 ELSE Max(earlier)
    IN  UNION { { <<i, j>> : j \in 1..Len(ns_calls[i].metrics["x-values"]) } :
                    i \in { c \in CallsOf(n) : c > from } }

XAt(pos) == ns_calls[pos[1]].metrics["x-values"][pos[2]]

YAt(pos) == ns_calls[pos[1]].metrics["y-values"][pos[2]]

RECURSIVE SumY(_)
SumY(S) == IF S = {} THEN 0 ELSE LET p == CHOOSE q \in S : TRUE IN YAt(p) + SumY(S \ {p})

\* the arithmetic mean of all buffered y samples paired with x
PooledMean(x) ==
    LET S == { p \in BufferedAtFlush : XAt(p) = x } IN Rat(SumY(S), Cardinality(S))

RECURSIVE SumPooledMeans(_)
SumPooledMeans(X) ==
    IF X = {} THEN <<0, 1>>
    ELSE LET x == CHOOSE y \in X : TRUE IN RatAdd(PooledMean(x), SumPooledMeans(X \ {x}))

\* C3: the aggregate of a flush maps every distinct buffered x, and nothing else,
\* to the mean of all y samples paired with it across all buffered records, and
\* the value written as <name>_avg is the unweighted mean of those per-x means.
C3_AggregateIsGroupedMean ==
    ns_last.flushed =>
        LET agg == ns_last.metrics_aggregate
            X == { XAt(p) : p \in BufferedAtFlush }
        IN  /\ { agg[i].x : i \in 1..Len(agg) } = X
            /\ Len(agg) = Cardinality(X)
            /\ \A i \in 1..Len(agg) : agg[i].v = PooledMean(agg[i].x)
            /\ \A i \in 1..Len(ns_last.writes) :
                   ns_last.writes[i].key = <<ns_last.name, "_avg">> =>
                       ns_last.writes[i].value = RatDivInt(SumPooledMeans(X), Cardinality(X))

\* the worked example: two records with x = [50, 100, 150] and the sample pairs
\* (0.9, 0.92), (0.7, 0.68), (0.5, 0.45) flush to 0.91, 0.69, 0.475 and 2.075 / 3
C3_Witness ==
    /\ ns_last.flushed
    /\ Len(ns_last.metrics_list) = 2
    /\ ns_last.metrics_aggregate =
           << [x |-> 50, v |-> <<910, 1>>], [x |-> 100, v |-> <<690, 1>>], [x |-> 150, v |-> <<475, 1>>] >>
    /\ \E i \in 1..Len(ns_last.writes) :
           /\ ns_last.writes[i].key = <<"pdr", "_avg">>
           /\ ns_last.writes[i].value = <<2075, 3>>

(***************************************************************************)
(* Properties of one sweep agent, over SpecAgent                           *)
(***************************************************************************)
ParsedMetrics(w) == w.pc \in {"parse_logs", "parse_artifacts", "log_duration", "finish", "done"}

\* C1: once the metrics directories of a tracked run are parsed, every metric
\* name that occurred in them was flushed exactly once: one <name>_avg write in
\* the run, from one flush, which aggregated every record of the name of the run.
C1_EveryNameFlushedOnce ==
    \A p \in DOMAIN wr :
        wr[p].pc = "parse_logs" =>
            \A n \in MetricNames :
                wr[p].parsed[n] > 0 =>
                    /\ AvgKeyCount(runs[wr[p].wandb_run].log, n) = 1
                    /\ Len(wr[p].flushes[n]) = 1
                    /\ wr[p].flushes[n][1] >= wr[p].parsed[n]

\* C5: a sweep wrapper with runs_per_sweep = N invokes the program N times in
\* one tracked run, the i-th time (i = 0..N-1) on the metrics directory, log
\* path and artifacts directory suffixed by i and with --run=i as last argument,
\* and finishes the tracked run once, after the N invocations.
C5_SweepInvokesNThenFinishesOnce ==
    \A p \in DOMAIN wr :
        LET w == wr[p]
            N == IF w.runs_per_sweep > 0 THEN w.runs_per_sweep ELSE 0
        IN  w.kind = "sweep" =>
            /\ Len(w.invocations) <= N
            /\ Count(w.trace, "run_single_experiment") = Len(w.invocations)
            /\ \A k \in 1..Len(w.invocations) :
                LET cmd == w.invocations[k]
                    name == <<w.group_id, "_run_", w.wandb_run, "_", k - 1>>
                IN  /\ cmd[3] = <<paths.metrics, name>>
                    /\ paths.logs # None => cmd[4] = <<paths.logs, name \o <<".log">>>>
                    /\ paths.artifacts # None =>
                          cmd[IF paths.logs # None THEN 5 ELSE 4] = <<paths.artifacts, name>>
                    /\ Last(cmd) = <<"--", "run", "=", k - 1>>
                    /\ \A j \in 1..Len(w.invocations) : j # k => w.invocations[j][3] # cmd[3]
            /\ Count(w.trace, "finish") <= 1
            /\ w.wandb_run # 0 => runs[w.wandb_run].finished = Count(w.trace, "finish")
            /\ Count(w.trace, "finish") = 1 => Len(w.invocations) = N /\ Last(w.trace) = "finish"
            /\ w.pc = "done" => Count(w.trace, "finish") = 1

\* runs-per-sweep = 3: one finish after three invocations
C5_Witness ==
    \E p \in DOMAIN wr :
        /\ wr[p].kind = "sweep" /\ wr[p].pc = "done" /\ wr[p].runs_per_sweep = 3
        /\ Len(wr[p].invocations) = 3
        /\ runs[wr[p].wandb_run].finished = 1
        /\ paths.logs # None

(***************************************************************************)
(* Properties of a simple batch, over Spec                                 *)
(***************************************************************************)
SimpleSteps ==
    <<"create_run", "makedirs", "run_single_experiment", "run_parse_functions", "log_duration", "finish">>

IsPrefix(t, u) == Len(t) <= Len(u) /\ \A i \in 1..Len(t) : t[i] = u[i]

\* the worker executing task i, if any
WorkersOf(i) == { p \in DOMAIN wr : wr[p].kind = "simple" /\ wr[p].task = i }

\* the wrapper of task i: in its worker, or as its task kept it
TaskWrapper(i) ==
    IF WorkersOf(i) # {} THEN Outcome(wr[CHOOSE p \in WorkersOf(i) : TRUE]) ELSE tasks[i].wrapper

\* C4: a simple wrapper takes the steps create_run, makedirs,
\* run_single_experiment, run_parse_functions, log_duration, finish in this
\* order, each at most once; the program is invoked once; the tracked run is
\* finished exactly once by a wrapper that completed, and by no other.
C4_SimpleStepsInOrder ==
    /\ \A i \in 1..Len(tasks) :
        LET w == TaskWrapper(i)
        IN  /\ IsPrefix(w.trace, SimpleSteps)
            /\ w.pc = "done" => w.trace = SimpleSteps
            /\ w.wandb_run # 0 => runs[w.wandb_run].finished = Count(w.trace, "finish")
    /\ \A p \in DOMAIN wr :
        wr[p].kind = "simple" =>
            /\ Len(wr[p].invocations) = Count(wr[p].trace, "run_single_experiment")
            /\ Len(wr[p].invocations) <= 1

C4_Witness ==
    /\ main.pc = "returned"
    /\ Len(tasks) = MaxRuns
    /\ \A i \in 1..Len(tasks) :
        /\ tasks[i].wrapper.trace = SimpleSteps
        /\ runs[tasks[i].wrapper.wandb_run].finished = 1

SubmissionOver == main.pc \in {"wait", "returned"} \/ (main.pc = "raised" /\ main.error = "task")

\* the paths a wrapper has made or named so far
PathsOfWorker(w) ==
    { w.metrics_dirs[k] : k \in 1..Len(w.metrics_dirs) }
    \cup { w.log_files[k] : k \in 1..Len(w.log_files) }
    \cup { w.artifacts_dirs[k] : k \in 1..Len(w.artifacts_dirs) }
    \cup (IF w.curr_metrics_dir # None THEN {w.curr_metrics_dir} ELSE {})
    \cup (IF w.curr_logfile # None THEN {w.curr_logfile} ELSE {})
    \cup (IF w.curr_artifacts_dir # None THEN {w.curr_artifacts_dir} ELSE {})

PathsOfTask(i) ==
    IF WorkersOf(i) # {} THEN PathsOfWorker(wr[CHOOSE p \in WorkersOf(i) : TRUE])
    ELSE LET w == tasks[i].wrapper
         IN  { w.metrics_dirs[k] : k \in 1..Len(w.metrics_dirs) }
             \cup { w.log_files[k] : k \in 1..Len(w.log_files) }
             \cup { w.artifacts_dirs[k] : k \in 1..Len(w.artifacts_dirs) }

\* C6: the batch submits one wrapper per run index of range(starting_run, runs),
\* in order; no wrapper is started twice, and when main returns every wrapper
\* has taken all its steps once; tracked runs having distinct ids, no wrapper
\* fails to create its directories and no two wrappers have a path in common.
C6_OneWrapperPerIndexDistinctPaths ==
    /\ \A i \in 1..Len(tasks) :
        /\ tasks[i].run = main.starting_run + i - 1
        /\ tasks[i].run < main.runs
        /\ tasks[i].started <= 1
        /\ ~(TaskWrapper(i).pc = "raised" /\ TaskWrapper(i).trace = <<"create_run">>)
    /\ SubmissionOver =>
        Len(tasks) = (IF main.runs > main.starting_run THEN main.runs - main.starting_run ELSE 0)
    /\ main.pc = "returned" =>
        \A i \in 1..Len(tasks) :
            tasks[i].status = "done" /\ tasks[i].started = 1 /\ tasks[i].wrapper.trace = SimpleSteps
    /\ \A i, j \in 1..Len(tasks) : i # j => PathsOfTask(i) \cap PathsOfTask(j) = {}

\* parallel = 2: both wrappers completed, the second having created its tracked
\* run before the first
C6_Witness ==
    /\ main.pc = "returned"
    /\ main.parallel = 2
    /\ main.starting_run = 0
    /\ Len(tasks) = MaxRuns
    /\ tasks[1].wrapper.wandb_run > tasks[2].wrapper.wandb_run
    /\ Cardinality(UNION { PathsOfTask(i) : i \in 1..Len(tasks) }) = 3 * MaxRuns

\* C7: when a wrapper of the batch raises, every other wrapper of the batch
\* still reaches finish: once main is through with the batch, no task was
\* killed or left in the queue.
C7_SiblingsReachFinish ==
    main.pc \in {"returned", "raised"} =>
        \A i \in 1..Len(tasks) : tasks[i].status \in {"done", "raised"}

\* the group-by setting of the run-setup section
GroupBy ==
    IF "run-setup" \in OKeys(files.config)
    THEN DictGet(OGet(files.config, "run-setup"), "group-by", None)
    ELSE None

SimpleBatch == files.sweep_path = None

GroupGenerated == GroupBy = None \/ GroupBy = "auto"

GroupsOfBatch == { tasks[i].group_id : i \in 1..Len(tasks) } \cup { runs[r].group : r \in 1..Len(runs) }

\* C8, as stated: with group-by absent or "auto" exactly one group id is
\* generated for the batch and every wrapper has it; with any other group-by no
\* id is generated and every wrapper has the literal value.
C8_ExactlyOneGroupID ==
    (SimpleBatch /\ SubmissionOver) =>
        IF GroupGenerated
        THEN main.generated = 1 /\ GroupsOfBatch \subseteq {generate_id(1)}
        ELSE main.generated = 0 /\ GroupsOfBatch \subseteq {GroupBy}

\* C8, amended: with group-by absent or "auto" at most one group id is
\* generated, exactly one when the batch has at least one run and none when it
\* has no run, and every wrapper has it; with any other group-by no id is
\* generated and every wrapper has the literal value.
C8_AtMostOneGroupID ==
    SimpleBatch =>
        /\ main.generated <= 1
        /\ IF GroupGenerated
           THEN /\ GroupsOfBatch \subseteq {generate_id(1)}
                /\ main.generated = (IF Len(tasks) > 0 THEN 1 ELSE 0)
           ELSE main.generated = 0 /\ GroupsOfBatch \subseteq {GroupBy}

C8_Witness ==
    /\ main.pc = "returned"
    /\ GroupBy = "auto"
    /\ Len(tasks) = MaxRuns
    /\ main.generated = 1
    /\ \A i \in 1..Len(tasks) : tasks[i].group_id = generate_id(1)
    /\ \A r \in 1..Len(runs) : runs[r].group = generate_id(1)
    /\ Len(runs) = MaxRuns

(***************************************************************************)
(* Properties of the resolution of the parse functions, over SpecMain      *)
(***************************************************************************)
Categories == {"metrics", "logfile", "artifacts"}

TableOf(category) ==
    IF category = "metrics" THEN metric_dict
    ELSE IF category = "logfile" THEN logfile_dict ELSE artifact_dict

ResolvedOf(category) ==
    IF category = "metrics" THEN main.metric_fn
    ELSE IF category = "logfile" THEN main.logfile_fn ELSE main.artifact_fn

ErrorOf(category) ==
    IF category = "metrics" THEN "Metric parsing function not found"
    ELSE IF category = "logfile" THEN "Logfile parsing function not found"
    ELSE "Artifacts parsing function not found"

HasParsingSetup == files.config_path # None /\ "parsing-setup" \in OKeys(files.config)

\* the configuration names a method for the category / names one the table lacks
NamesMethod(category) ==
    /\ HasParsingSetup
    /\ category \in DOMAIN OGet(files.config, "parsing-setup")
    /\ "method" \in DOMAIN OGet(files.config, "parsing-setup")[category]

NamesUnknownMethod(category) ==
    /\ NamesMethod(category)
    /\ OGet(files.config, "parsing-setup")[category]["method"] \notin DOMAIN TableOf(category)

NothingStarted ==
    /\ runs = <<>>
    /\ sweep.id = None
    /\ DOMAIN wr = {}
    /\ tasks = <<>>
    /\ pool = NoPool

\* C9: when the method named for metrics, logfile or artifacts is no key of its
\* table, main raises NotImplementedError and, at every moment, no tracked run
\* exists, no sweep is registered, no worker or agent process is started, no
\* task is submitted and so no program is invoked.
C9_UnknownMethodFailsFast ==
    (\E c \in Categories : NamesUnknownMethod(c)) =>
        /\ NothingStarted
        /\ main.pc \in {"start", "raised"}
        /\ main.pc = "raised" => main.error \in { ErrorOf(c) : c \in Categories }

\* only the last category checked names an unknown method
C9_Witness ==
    /\ main.pc = "raised"
    /\ main.error = ErrorOf("artifacts")
    /\ NamesUnknownMethod("artifacts")
    /\ main.metric_fn = metric_dict["default"]
    /\ main.logfile_fn = logfile_dict["default"]
    /\ NothingStarted

\* C10: for every category for which the configuration names no method, the
\* routine registered under "default" is resolved and main does not raise for
\* the category.
C10_DefaultResolved ==
    \A c \in Categories :
        (main.pc # "start" /\ ~NamesMethod(c)) =>
            /\ ResolvedOf(c) = TableOf(c)["default"]
            /\ main.error # ErrorOf(c)

(***************************************************************************)
(* Properties of run_parse_functions, over SpecAgent                       *)
(***************************************************************************)
CallsTo(w, fn) == SelectSeq(w.calls, LAMBDA c : c.fn = fn)

\* the calls run_parse_functions is to make for the first n directories of a list
MetricsCallsFor(dirs, n) == [i \in 1..n |-> ParseCall("metrics", dirs[i], i = Len(dirs))]

PathCallsFor(fn, pathlist) == [i \in 1..Len(pathlist) |-> ParseCall(fn, pathlist[i], FALSE)]

\* C11: run_parse_functions calls the metrics routine once per directory of the
\* list, in list order, with the flag true for the last directory and false for
\* every other one; the log routine and the artifacts routine are called once
\* per path of their lists, in list order, metrics before logs before artifacts.
C11_OneCallPerPath ==
    \A p \in DOMAIN wr :
        LET w == wr[p]
            m == CallsTo(w, "metrics")
        IN  /\ Len(m) <= Len(w.metrics_dirs)
            /\ m = MetricsCallsFor(w.metrics_dirs, Len(m))
            /\ ParsedMetrics(w) => m = MetricsCallsFor(w.metrics_dirs, Len(w.metrics_dirs))
            /\ w.pc \in {"parse_artifacts", "log_duration", "finish", "done"} =>
                  CallsTo(w, "logfile") = PathCallsFor("logfile", w.log_files)
            /\ w.pc \in {"log_duration", "finish", "done"} =>
                  /\ CallsTo(w, "artifacts") = PathCallsFor("artifacts", w.artifacts_dirs)
                  /\ w.calls = m \o CallsTo(w, "logfile") \o CallsTo(w, "artifacts")
            /\ w.pc \in {"idle", "create_run", "makedirs", "invoke"} => w.calls = <<>>

\* three directories, three log files and three artifacts directories
C11_Witness ==
    \E p \in DOMAIN wr :
        /\ wr[p].pc = "done"
        /\ Len(wr[p].metrics_dirs) = 3
        /\ Len(wr[p].calls) = 9
        /\ ~wr[p].calls[1].last_file /\ ~wr[p].calls[2].last_file /\ wr[p].calls[3].last_file

(***************************************************************************)
(* Properties of the tracked configuration, over Spec                      *)
(***************************************************************************)
\* C12: the run-scoped pair (the run or repetition index, key "run") is in
\* the configuration of no tracked run, created by a simple wrapper or by a
\* sweep wrapper.
C12_RunIndexNotTracked ==
    \A r \in 1..Len(runs) : "run" \notin OKeys(runs[r].config)

(***************************************************************************)
(* Properties of the worker pool, over Spec                                *)
(***************************************************************************)
\* the tasks a worker has taken and not yet answered
RunningTasks == { i \in 1..Len(tasks) : tasks[i].status = "running" }

\* the wrappers that hold a tracked run they have not finished, in a worker
OpenWrappers ==
    { p \in DOMAIN wr : /\ wr[p].kind = "simple"
                        /\ wr[p].wandb_run # 0
                        /\ wr[p].pc \in {"makedirs", "invoke", "parse_metrics", "parse_logs",
                                         "parse_artifacts", "log_duration", "finish"} }

\* C13: in a simple batch of parallelism p at most p wrappers are executing at
\* any moment, each in a worker of its own, so at most p are between create_run
\* and finish; a queued wrapper starts only in a worker that is through with
\* its wrapper before, while fewer than p are executing.
C13_AtMostParallelExecuting ==
    /\ [](SimpleBatch /\ pool.state # "none" =>
            /\ Cardinality(RunningTasks) <= main.parallel
            /\ Cardinality(OpenWrappers) <= main.parallel
            /\ \A i \in RunningTasks : Cardinality(WorkersOf(i)) = 1)
    /\ [][\A i \in 1..Len(tasks) :
            (tasks[i].status = "queued" /\ tasks'[i].status = "running") =>
                /\ Cardinality(RunningTasks) < main.parallel
                /\ \E p \in DOMAIN wr : wr[p].pc = "idle" /\ wr'[p].task = i]_vars

\* parallel = 1: the second wrapper is sent to the pool and waits for the
\* worker, which holds the tracked run of the first
C13_Witness ==
    /\ main.parallel = 1
    /\ Len(tasks) = 2
    /\ tasks[1].status = "running"
    /\ OpenWrappers # {}
    /\ tasks[2].status = "queued"
    /\ tasks[2].pickled

(***************************************************************************)
(* SpecLive: main and its processes, each of them scheduled: the main      *)
(* thread, the task handler thread of the pool, and every worker or agent  *)
(* process take their next step when they can. The sweep controller hands  *)
(* out finitely many runs.                                                 *)
(***************************************************************************)
Procs == {1, 2}

MainThreadStep ==
    \/ MainStart
    \/ MainDispatch
    \/ PerformSingleBegin
    \/ Submit
    \/ Sleep
    \/ LoopDone
    \/ MainGet
    \/ PerformSweepBegin
    \/ SpawnAgent
    \/ SpawnDone
    \/ MainJoin

InitLive ==
    MainInit({ ConfigFile(<< <<"parsing-setup", ValidParsingSetup>>, <<"run-setup", r>>, <<"nodes", 50>> >>) :
                 r \in { q @@ ("num-runs-limit" :> YamlInt(MaxRuns)) :
                           q \in {EmptyDict, ("parallel" :> YamlInt(2))} } },
             { SweepFile(<< <<"parsing-setup", ValidParsingSetup>> >>, d) : d \in SweepDocs })

SpecLive ==
    /\ InitLive
    /\ [][Next]_vars
    /\ WF_vars(MainThreadStep)
    /\ WF_vars(HandlerPickle)
    /\ \A p \in Procs : WF_vars(p \in DOMAIN wr /\ ProcessStep(p))

\* an exception was raised: in a wrapper, in a task, or in main
SomeRaised ==
    \/ main.pc = "raised"
    \/ \E p \in DOMAIN wr : wr[p].pc = "raised"
    \/ \E i \in 1..Len(tasks) : tasks[i].status = "raised"

ExpectedTasks == IF main.runs > main.starting_run THEN main.runs - main.starting_run ELSE 0

HasDuration(log) == \E k \in 1..Len(log) : log[k].key = <<"duration_secs">>

\* the wrappers that raised holding a tracked run: in a process, or as their task kept them
RaisedWrappers ==
    { Outcome(wr[p]) : p \in { q \in DOMAIN wr : wr[q].pc = "raised" /\ wr[q].wandb_run # 0 } }
    \cup { tasks[i].wrapper : i \in { j \in 1..Len(tasks) : /\ tasks[j].wrapper.pc = "raised"
                                                            /\ tasks[j].wrapper.wandb_run # 0 } }

\* C15: a wrapper that raised after create_run, in makedirs, in the invocation
\* or in a parse routine, takes no further step; its tracked run has no
\* duration_secs and is never finished; the exception reaches the caller: the
\* task of a simple wrapper is answered as raised.
C15_RaisedRunStaysOpen ==
    /\ [](\A w \in RaisedWrappers :
            /\ runs[w.wandb_run].finished = 0
            /\ ~HasDuration(runs[w.wandb_run].log)
            /\ Count(w.trace, "log_duration") = 0
            /\ Count(w.trace, "finish") = 0
            /\ Count(w.trace, "create_run") = 1)
    /\ [][\A p \in DOMAIN wr :
            wr[p].pc = "raised" =>
                \/ wr'[p] = wr[p]
                \/ /\ wr[p].kind = "simple"
                   /\ wr'[p] = IdleWorker
                   /\ tasks'[wr[p].task].status = "raised"
                   /\ tasks'[wr[p].task].wrapper = Outcome(wr[p])]_vars

\* a simple wrapper raised in a parse routine; main got the exception
C15_Witness ==
    /\ main.pc = "raised"
    /\ \E i \in 1..Len(tasks) :
        /\ tasks[i].status = "raised"
        /\ tasks[i].wrapper.trace = <<"create_run", "makedirs", "run_single_experiment">>
        /\ tasks[i].wrapper.wandb_run # 0
        /\ runs[tasks[i].wrapper.wandb_run].finished = 0

(***************************************************************************)
(* The exit status of the program, over Spec                               *)
(***************************************************************************)
NonZeroExit(w) == \E k \in 1..Len(w.returncodes) : w.returncodes[k] # 0

\* C16: every exit of the program, zero or not, gives a duration and the
\* next step of the wrapper (the next invocation's makedirs, or parsing);
\* a wrapper with a non-zero exit that ended went through duration logging
\* and finish once, as one without.
C16_ExitStatusIgnored ==
    /\ [](\A p \in DOMAIN wr :
            /\ Len(wr[p].returncodes) = Len(wr[p].durations)
            /\ Len(wr[p].returncodes) = Len(wr[p].invocations)
            /\ wr[p].pc = "done" =>
                /\ Count(wr[p].trace, "log_duration") = 1
                /\ Last(wr[p].trace) = "finish"
                /\ runs[wr[p].wandb_run].finished = 1)
    /\ [][\A p \in DOMAIN wr :
            (p \in DOMAIN wr' /\ Len(wr'[p].returncodes) = Len(wr[p].returncodes) + 1) =>
                /\ wr'[p].pc \in {"makedirs", "parse_metrics"}
                /\ wr'[p].trace = Append(wr[p].trace, "run_single_experiment")
                /\ Len(wr'[p].durations) = Len(wr[p].durations) + 1]_vars

\* a wrapper finished its run after an invocation with a non-zero exit
C16_Witness ==
    /\ \E p \in DOMAIN wr :
        /\ wr[p].pc = "done"
        /\ NonZeroExit(wr[p])
        /\ Last(wr[p].trace) = "finish"
        /\ runs[wr[p].wandb_run].finished = 1

(***************************************************************************)
(* default_parse_metrics and the files of other types, over SpecAgent      *)
(***************************************************************************)
\* the metric files whose type is no key of the metric-type table
UnsupportedEntries ==
    { e \in ProgramEntries : /\ e.yaml
                             /\ "type" \in DOMAIN e.doc
                             /\ e.doc["type"] \notin DOMAIN metric_type_handling }

\* C17: wherever default_parse_metrics is listing a directory, a metric file
\* whose type is no key of the metric-type table gives no aggregation call,
\* leaves the buffer as it is, writes nothing and raises nothing, so that the
\* loop goes on with the next file.
C17_UnsupportedTypeSkipped ==
    \A p \in DOMAIN wr :
        wr[p].pc = "parse_metrics" =>
            \A e \in UnsupportedEntries :
                LET r == ParseMetricsFile(metrics_storage[p], runs[wr[p].wandb_run].group, e,
                                          wr[p].metrics_args, LastFile(wr[p]))
                IN  /\ ~r.called
                    /\ r.storage = metrics_storage[p]
                    /\ r.writes = <<>>
                    /\ ~r.raised

(***************************************************************************)
(* The command line of an invocation, over SpecAgent                       *)
(***************************************************************************)
\* the token f"--{k}={v}" of an item
OptionToken(kv) == <<"--", kv[1], "=", kv[2]>>

DurationRecords(log) == SelectSeq(log, LAMBDA e : e.key = <<"duration_secs">>)

\* the invocations the variant makes for one tracked run
InvocationsOf(w) == IF w.kind = "simple" THEN 1 ELSE w.runs_per_sweep

\* C19: a tracked run about to be finished has exactly one duration_secs
\* record; its value is a number, the sum of the durations of the
\* invocations of the run divided by their count: runs_per_sweep in a sweep,
\* one in a simple run.
C19_DurationLoggedOnce ==
    \A p \in DOMAIN wr :
        wr[p].pc = "finish" =>
            LET w == wr[p]
                recs == DurationRecords(runs[w.wandb_run].log)
            IN  /\ Len(recs) = 1
                /\ Len(w.durations) = InvocationsOf(w)
                /\ recs[1].value[2] # 0
                /\ recs[1].value[1] * InvocationsOf(w) = SeqSum(w.durations) * recs[1].value[2]

(***************************************************************************)
(* The writes of a flush, over SpecAgg                                     *)
(***************************************************************************)
WritesOfKind(writes, kind) == SelectSeq(writes, LAMBDA e : e.key[2] = kind)

\* C20: the writes of a flush of a name are one <name>_at_<x> per distinct
\* buffered x and for no other x, all uncommitted, and after all of them
\* exactly one committing <name>_avg.
C20_FlushWrites ==
    ns_last.flushed =>
        LET at == WritesOfKind(ns_last.writes, "_at_")
            avg == WritesOfKind(ns_last.writes, "_avg")
            X == { XAt(p) : p \in BufferedAtFlush }
        IN  /\ { at[i].key : i \in 1..Len(at) } = { <<ns_last.name, "_at_", x>> : x \in X }
            /\ Len(at) = Cardinality(X)
            /\ \A i \in 1..Len(at) : ~at[i].commit /\ ns_last.writes[i] = at[i]
            /\ Len(avg) = 1
            /\ ns_last.writes[Len(at) + 1] = avg[1]
            /\ avg[1].key = <<ns_last.name, "_avg">>
            /\ avg[1].commit

(***************************************************************************)
(* The line series of a flush, over SpecSeries                             *)
(***************************************************************************)
SeriesRequested == "lineseries" \in DOMAIN MethodArgs /\ MethodArgs["lineseries"] = TRUE

\* the x values of the records of a list, one after the other
RECURSIVE AllX(_)
AllX(metrics_list) ==
    IF metrics_list = <<>> THEN <<>>
    ELSE Head(metrics_list)["x-values"] \o AllX(Tail(metrics_list))

\* a sequence without the later occurrences of its elements
RECURSIVE FirstSeen(_)
FirstSeen(xs) ==
    IF xs = <<>> THEN <<>>
    ELSE LET front == FirstSeen(SubSeq(xs, 1, Len(xs) - 1))
         IN  IF Count(front, Last(xs)) > 0 THEN front ELSE Append(front, Last(xs))

\* C21: a flush under method arguments that ask for the line series writes
\* exactly one <name>_series chart, keyed by the group of the run, with the x
\* values in first-seen order over the buffered records and the axis titles
\* of the first buffered record; a flush without the request writes none.
C21_SeriesOfFirstRecord ==
    (ns_last.flushed /\ ~ns_last.raised) =>
        LET series == WritesOfKind(ns_last.writes, "_series")
            first == ns_last.metrics_list[1]
        IN  IF SeriesRequested
            THEN /\ Len(series) = 1
                 /\ series[1].key = <<ns_last.name, "_series">>
                 /\ series[1].value.keys = runs[1].group
                 /\ series[1].value.xs = FirstSeen(AllX(ns_last.metrics_list))
                 /\ series[1].value.title = first["y-axis"]
                 /\ series[1].value.xname = first["x-axis"]
            ELSE Len(series) = 0

(***************************************************************************)
(* The order of the records of a flush, over SpecAgg                       *)
(***************************************************************************)
Orderings(n) == { f \in [1..n -> 1..n] : \A i, j \in 1..n : f[i] = f[j] => i = j }

\* the last call of network_size on a list of records of one name, from an empty
\* buffer, with last_file on the last record only
RECURSIVE Replay(_, _)
Replay(storage, list) ==
    LET r == network_size(storage, runs[1].group, Head(list), EmptyDict, Len(list) = 1)
    IN  IF Len(list) = 1 THEN r ELSE Replay(r.storage, Tail(list))

\* the per-x means of a flush as a mapping, and the values of its <name>_avg writes
MeansOf(r) == { <<r.metrics_aggregate[i].x, r.metrics_aggregate[i].v>> : i \in 1..Len(r.metrics_aggregate) }

AvgOf(r) == { r.writes[i].value : i \in { k \in 1..Len(r.writes) : r.writes[k].key[2] = "_avg" } }

C23_BufferEmptyAfterParsing ==
    \A p \in DOMAIN wr :
        ParsedMetrics(wr[p]) => metrics_storage[p] = EmptyDict

(***************************************************************************)
(* The run index a simple wrapper executes with, over Spec                 *)
(***************************************************************************)
\* C24: the configuration a wrapper of a batch reaches its worker with has
\* the run index of the loop iteration that created it, so that the wrappers
\* of a batch carry pairwise distinct run indices.
C24_WrapperCarriesOwnRunIndex ==
    SimpleBatch =>
        /\ \A i \in 1..Len(tasks) :
            tasks[i].pickled => OGet(tasks[i].run_config, "run") = tasks[i].run
        /\ \A i, j \in 1..Len(tasks) :
            (tasks[i].pickled /\ tasks[j].pickled /\ i # j) =>
                OGet(tasks[i].run_config, "run") # OGet(tasks[j].run_config, "run")

(***************************************************************************)
(* The order of the steps and writes of a tracked run, over Spec           *)
(***************************************************************************)
\* C25: a tracked run is written to only between its creation and its finish;
\* once a parse routine was called for a run the program is not invoked again
\* for it, and all invocations of the variant were made by then; the run is
\* finished right after the duration_secs write, its last one.
C25_WritesBetweenCreateAndFinish ==
    /\ [](\A p \in DOMAIN wr :
            /\ wr[p].calls # <<>> => Len(wr[p].invocations) = InvocationsOf(wr[p])
            /\ wr[p].pc = "finish" =>
                Last(runs[wr[p].wandb_run].log).key = <<"duration_secs">>)
    /\ [][/\ \A r \in 1..Len(runs) :
                /\ runs[r].finished > 0 => runs'[r] = runs[r]
                /\ runs'[r].finished # runs[r].finished =>
                    /\ runs'[r].finished = 1
                    /\ Last(runs[r].log).key = <<"duration_secs">>
          /\ \A p \in DOMAIN wr :
                (p \in DOMAIN wr' /\ wr[p].calls # <<>> /\ wr'[p].wandb_run = wr[p].wandb_run) =>
                    wr'[p].invocations = wr[p].invocations]_vars

\* a sweep run about to be finished: two invocations, then metric, log file and
\* artifacts writes, then duration_secs
C25_Witness ==
    \E p \in DOMAIN wr :
        /\ wr[p].pc = "finish"
        /\ wr[p].kind = "sweep"
        /\ Len(wr[p].invocations) = 2
        /\ Len(runs[wr[p].wandb_run].log) >= 4
        /\ \E k \in 1..Len(runs[wr[p].wandb_run].log) :
            runs[wr[p].wandb_run].log[k].key = <<"artifacts">>

(***************************************************************************)
(* A terminal call on records without samples, over SpecAgg                *)
(***************************************************************************)
\* C26: a terminal call of network_size on records of equal-length x and y
\* sequences does not raise, also when no buffered record of the name has a
\* sample; after it, either the <name>_avg write was made or the buffer still
\* has the entry of the name.
C26_TerminalCallCompletes ==
    ns_last.last_file =>
        /\ ~ns_last.raised
        /\ \/ AvgOf(ns_last) # {}
           \/ ns_last.name \in DOMAIN metrics_storage[1]

====
